---- MODULE Spec2Model ----
(***************************************************************************)
(* AVM2 method descriptors of core/src/avm2/method.rs: ParamConfig,        *)
(* BytecodeMethod, NativeMethod and the Method handle, with the lazy       *)
(* verified_info / resolved_signature caches.                              *)
(*                                                                         *)
(* Rust values are encoded as follows.  Option<T> is a sequence of length  *)
(* at most one (None = <<>>, Some(x) = <<x>>).  Result<T, E> is a record   *)
(* [ok, val].  A Gc pointer is an index into the arena `heap`.  Indices    *)
(* of the ABC tables are zero based, as in the source.                     *)
(***************************************************************************)
EXTENDS Integers, Sequences, FiniteSets, TLC

\* Largest number of parameters a method of a generated container declares.
MaxParams == 2
\* Largest length of the method table of a generated container.
MaxMethods == 2
\* Capacity of the arena: descriptors alive at the same time.
MaxDescs == 1
\* Number of Method handles alive at the same time.
MaxHandles == 2

VARIABLES
    heap,       \* the Gc arena: sequence of BytecodeMethod / NativeMethod
    handles,    \* the Method values the runtime holds, each a tag and a Gc
    reported,   \* per descriptor, what the external verifier / resolver
                \* returned in the latest call for it that succeeded (None
                \* while no call has succeeded)
    last        \* the latest operation, its arguments and what it returned

vars == <<heap, handles, reported, last>>

---------------------------------------------------------------------------
(* Option and Result *)

None == <<>>

Some(x) == <<x>>

is_some(o) == o # <<>>

unwrap(o) == o[1]

Ok(v) == [ok |-> TRUE, val |-> v]

Err(e) == [ok |-> FALSE, val |-> e]

---------------------------------------------------------------------------
(* The container: constant pool and method table *)

\* Multinames of the constant pool; pool index i (1-based, 0 is "any")
\* names PoolMultinames[i].
PoolMultinames == <<"int">>

\* Integers of the constant pool, indexed from 1.
PoolInts == <<7>>

NEED_ARGUMENTS == "NEED_ARGUMENTS"

NEED_REST == "NEED_REST"

HAS_OPTIONAL == "HAS_OPTIONAL"

\* Raw type indices a method entry can carry: 0 (any), the pool's indices
\* and one index past the pool.
TypeIndices == 0..(Len(PoolMultinames) + 1)

\* Raw default-value constants: Int(i) refers to the integer pool (one
\* index past the pool included), True carries no index.
AbcDefaultValues ==
    {[tag |-> "Int", idx |-> i] : i \in 1..(Len(PoolInts) + 1)}
        \cup {[tag |-> "True", idx |-> 0]}

\* swf::avm2::types::MethodParam
AbcMethodParams ==
    [kind : TypeIndices,
     default_value : {None} \cup {Some(dv) : dv \in AbcDefaultValues}]

SeqsUpTo(S, n) == UNION {[1..k -> S] : k \in 0..n}

\* HAS_OPTIONAL is set by the container exactly for methods that declare a
\* default value.
OptionalFlag(params) ==
    IF \E i \in DOMAIN params : is_some(params[i].default_value)
    THEN {HAS_OPTIONAL} ELSE {}

\* swf::avm2::types::Method
AbcMethods(paramLists, returnTypes, flagSets) ==
    {[params |-> ps, return_type |-> rt, flags |-> fl \cup OptionalFlag(ps),
      body |-> Some(0)] :
        ps \in paramLists, rt \in returnTypes, fl \in flagSets}

\* A method entry that generated tables are padded with.
FillerMethod ==
    [params |-> <<[kind |-> 1, default_value |-> None],
                  [kind |-> 0, default_value |-> None],
                  [kind |-> 0, default_value |-> None]>>,
     return_type |-> 0, flags |-> {}, body |-> None]

\* Method tables of length n with entry m at position p and the filler
\* elsewhere.
TableWith(m, p, n) == [i \in 1..n |-> IF i = p THEN m ELSE FillerMethod]

\* AbcFile: the empty table and every table of length up to MaxMethods
\* that holds one entry of `methods` at some position.
Containers(methods) ==
    {[methods |-> <<>>]}
        \cup {[methods |-> TableWith(m, p, n)] :
                m \in methods,
                n \in 1..MaxMethods,
                p \in 1..MaxMethods}

\* The containers method construction is checked on: every parameter list
\* of length up to MaxParams, every return type index.
BuildContainers ==
    Containers(AbcMethods(SeqsUpTo(AbcMethodParams, MaxParams), TypeIndices,
                          {{NEED_REST}}))

\* The containers the descriptor life cycle is checked on: a table of one
\* method, with every combination of the two variadic flags; its parameter
\* is untyped, or (with NEED_ARGUMENTS) typed with a default value.
LifeContainers ==
    {[methods |-> <<m>>] :
        m \in AbcMethods({<<[kind |-> 0, default_value |-> None]>>},
                         {1}, {{}, {NEED_REST}})
            \cup AbcMethods({<<[kind |-> 1,
                                default_value |->
                                    Some([tag |-> "Int", idx |-> 1])]>>},
                            {1},
                            {{NEED_ARGUMENTS}, {NEED_ARGUMENTS, NEED_REST}})}

---------------------------------------------------------------------------
(* External collaborators of the container and the error module *)

\* Runtime values (avm2::value::Value).
Integer(n) == [type |-> "Integer", v |-> n]

Bool(b) == [type |-> "Bool", v |-> IF b THEN 1 ELSE 0]

\* Errors (avm2::Error).
AvmError(kind, code) == [kind |-> kind, code |-> code]

\* avm2::error::verify_error: the VerifyError object with the given code.
verify_error(code) == Ok(AvmError("VerifyError", code))

\* TranslationUnit::pool_multiname_static_any: index 0 is the "any" name
\* (no type), an index of the pool is its multiname, any other index is
\* an error of the container.
pool_multiname_static_any(index) ==
    IF index = 0 THEN Ok(None)
    ELSE IF index \in 1..Len(PoolMultinames)
         THEN Ok(Some([multiname |-> PoolMultinames[index]]))
         ELSE Err(AvmError("CpoolMultinameOutOfRange", index))

\* avm2::value::abc_default_value: decodes a raw constant to a Value.
abc_default_value(dv) ==
    IF dv.tag = "True" THEN Ok(Bool(TRUE))
    ELSE IF dv.idx \in 1..Len(PoolInts)
         THEN Ok(Integer(PoolInts[dv.idx]))
         ELSE Err(AvmError("CpoolIntOutOfRange", dv.idx))

---------------------------------------------------------------------------
(* ParamConfig and BytecodeMethod construction *)

\* ParamConfig::from_abc_param
from_abc_param(config) ==
    LET name == pool_multiname_static_any(config.kind) IN
    IF ~name.ok THEN name
    ELSE LET dv == IF is_some(config.default_value)
                   THEN abc_default_value(unwrap(config.default_value))
                   ELSE Ok(None)
         IN  IF ~dv.ok THEN dv
             ELSE Ok([param_type_name |-> name.val,
                      default_value |->
                          IF is_some(config.default_value)
                          THEN Some(dv.val) ELSE None])

\* push_params with a loop that pushes nothing for a parameter of type
\* "any" that has no default value.
RECURSIVE push_params_skipping(_, _)
push_params_skipping(params, signature) ==
    IF params = <<>> THEN Ok(signature)
    ELSE LET p == from_abc_param(Head(params)) IN
         IF ~p.ok THEN p
         ELSE push_params_skipping(
                  Tail(params),
                  IF is_some(p.val.param_type_name) \/ is_some(p.val.default_value)
                  THEN Append(signature, p.val) ELSE signature)

\* push_params with a loop that inserts each ParamConfig at the front of
\* the signature.
RECURSIVE push_params_front(_, _)
push_params_front(params, signature) ==
    IF params = <<>> THEN Ok(signature)
    ELSE LET p == from_abc_param(Head(params)) IN
         IF ~p.ok THEN p
         ELSE push_params_front(Tail(params), <<p.val>> \o signature)

\* The loop of from_method_index that pushes one ParamConfig per declared
\* parameter and leaves at the first error.
RECURSIVE push_params(_, _)
push_params(params, signature) ==
    IF params = <<>> THEN Ok(signature)
    ELSE LET p == from_abc_param(Head(params)) IN
         IF ~p.ok THEN p
         ELSE push_params(Tail(params), Append(signature, p.val))

\* all_params_unchecked with a loop that looks at the type names only.
all_params_untyped(signature) ==
    \A i \in DOMAIN signature : ~is_some(signature[i].param_type_name)

\* The loop of from_method_index that clears all_params_unchecked.
all_params_unchecked(signature) ==
    \A i \in DOMAIN signature :
        ~(is_some(signature[i].param_type_name)
            \/ is_some(signature[i].default_value))

\* methods_get with the index taken as one based.
methods_get_one_based(txunit, index) ==
    IF index \in 1..Len(txunit.methods)
    THEN Some(txunit.methods[index]) ELSE None

\* abc.methods.get(abc_method.0 as usize)
methods_get(txunit, index) ==
    IF index \in 0..(Len(txunit.methods) - 1)
    THEN Some(txunit.methods[index + 1]) ELSE None

\* from_method_index that resolves the return type before it walks the
\* parameters.
from_method_index_return_type_first(txunit, abc_method, is_function) ==
    LET found == methods_get(txunit, abc_method) IN
    IF ~is_some(found) THEN Err(verify_error(1027).val)
    ELSE LET method == unwrap(found)
             return_type == pool_multiname_static_any(method.return_type)
             signature == push_params(method.params, <<>>)
         IN  IF ~return_type.ok THEN return_type
             ELSE IF ~signature.ok THEN signature
             ELSE Ok([tag |-> "Bytecode",
                      txunit |-> txunit,
                      abc_method |-> abc_method,
                      abc_method_body |-> method.body,
                      verified_info |-> None,
                      signature |-> signature.val,
                      return_type |-> return_type.val,
                      is_function |-> is_function,
                      is_unchecked |->
                          is_function /\ all_params_unchecked(signature.val)])

\* BytecodeMethod::from_method_index
from_method_index(txunit, abc_method, is_function) ==
    LET found == methods_get(txunit, abc_method) IN
    IF ~is_some(found) THEN Err(verify_error(1027).val)
    ELSE LET method == unwrap(found)
             signature == push_params(method.params, <<>>)
             return_type == pool_multiname_static_any(method.return_type)
         IN  IF ~signature.ok THEN signature
             ELSE IF ~return_type.ok THEN return_type
             ELSE Ok([tag |-> "Bytecode",
                      txunit |-> txunit,
                      abc_method |-> abc_method,
                      abc_method_body |-> method.body,
                      verified_info |-> None,
                      signature |-> signature.val,
                      return_type |-> return_type.val,
                      is_function |-> is_function,
                      is_unchecked |->
                          is_function /\ all_params_unchecked(signature.val)])

\* BytecodeMethod::method
method(bm) == bm.txunit.methods[bm.abc_method + 1]

\* BytecodeMethod::signature
bm_signature(bm) == bm.signature

\* BytecodeMethod::is_unchecked
is_unchecked(bm) == bm.is_unchecked

\* is_variadic with contains() in place of intersects().
bm_is_variadic_contains(bm) ==
    {NEED_ARGUMENTS, NEED_REST} \subseteq method(bm).flags

\* is_variadic that tests NEED_REST alone.
bm_is_variadic_rest_only(bm) == NEED_REST \in method(bm).flags

\* BytecodeMethod::is_variadic
bm_is_variadic(bm) == method(bm).flags \cap {NEED_ARGUMENTS, NEED_REST} # {}


---------------------------------------------------------------------------
(* Deferred verification *)

\* Class objects of the live class system (avm2::class::Class): the class
\* a name denotes in one application domain.
Class(name, domain) == [class |-> name, domain |-> domain]

\* What the external verifier avm2::verify::verify_method can return: a
\* VerifiedMethodInfo with its resolved return type, or a verification
\* error.
VerifyMethodResults ==
    {Ok([return_type |-> None]),
     Ok([return_type |-> Some(Class("int", "player"))]),
     Err(AvmError("VerifyError", 1030))}

\* verify that keeps the first VerifiedMethodInfo stored (a set-once cell).
verify_first_wins(this, verified) ==
    IF ~verified.ok
    THEN [this |-> this, ret |-> Err(verified.val), calls |-> 1]
    ELSE [this |-> IF is_some(this.verified_info) THEN this
                   ELSE [this EXCEPT !.verified_info = Some(verified.val)],
          ret |-> Ok(<<>>), calls |-> 1]

\* verify that reports success whatever the verifier returned.
verify_swallowing(this, verified) ==
    IF ~verified.ok
    THEN [this |-> this, ret |-> Ok(<<>>), calls |-> 1]
    ELSE [this |-> [this EXCEPT !.verified_info = Some(verified.val)],
          ret |-> Ok(<<>>), calls |-> 1]

\* verify that empties the cell before it runs the verifier.
verify_clearing(this, verified) ==
    IF ~verified.ok
    THEN [this |-> [this EXCEPT !.verified_info = None],
          ret |-> Err(verified.val), calls |-> 1]
    ELSE [this |-> [this EXCEPT !.verified_info = Some(verified.val)],
          ret |-> Ok(<<>>), calls |-> 1]

\* verify that returns at once on a descriptor that is verified already.
verify_guarded(this, verified) ==
    IF is_some(this.verified_info)
    THEN [this |-> this, ret |-> Ok(<<>>), calls |-> 0]
    ELSE IF ~verified.ok
    THEN [this |-> this, ret |-> Err(verified.val), calls |-> 1]
    ELSE [this |-> [this EXCEPT !.verified_info = Some(verified.val)],
          ret |-> Ok(<<>>), calls |-> 1]

\* verify that, besides caching the info, overwrites the declared return
\* type of the descriptor by the resolved one.
verify_retyping(this, verified) ==
    IF ~verified.ok
    THEN [this |-> this, ret |-> Err(verified.val), calls |-> 1]
    ELSE [this |-> [this EXCEPT !.verified_info = Some(verified.val),
                                !.return_type = verified.val.return_type],
          ret |-> Ok(<<>>), calls |-> 1]

\* BytecodeMethod::verify, given what verify_method(activation, this)
\* returns: the descriptor afterwards, the value returned to the caller
\* and the number of times verify_method ran.
verify(this, verified) ==
    IF ~verified.ok
    THEN [this |-> this, ret |-> Err(verified.val), calls |-> 1]
    ELSE [this |-> [this EXCEPT !.verified_info = Some(verified.val)],
          ret |-> Ok(<<>>), calls |-> 1]

\* resolved_return_type that answers "no return type" for an empty cache
\* (and_then in place of unwrap).
resolved_return_type_lenient(bm) ==
    IF ~is_some(bm.verified_info)
    THEN [panic |-> FALSE, val |-> None]
    ELSE [panic |-> FALSE, val |-> unwrap(bm.verified_info).return_type]

\* BytecodeMethod::resolved_return_type: unwrap() of an empty cache panics.
resolved_return_type(bm) ==
    IF ~is_some(bm.verified_info)
    THEN [panic |-> TRUE, val |-> None]
    ELSE [panic |-> FALSE, val |-> unwrap(bm.verified_info).return_type]

---------------------------------------------------------------------------
(* Native methods *)

\* ParamConfig::optional
optional(param_type_name, default_value) ==
    [param_type_name |-> param_type_name,
     default_value |-> Some(default_value)]

\* Type names native signatures declare.
NativeTypeNames == {[multiname |-> "int"], [multiname |-> "String"]}

\* The ParamConfig values native signatures are built from.
NativeParamConfigs ==
    [param_type_name : {None} \cup {Some(n) : n \in NativeTypeNames},
     default_value : {None}]
        \cup {optional(tn, Integer(0)) :
                tn \in {None} \cup {Some(n) : n \in NativeTypeNames}}

\* The routines create_class of globals/global_scope.rs and globals/null.rs
\* pass to Method::from_builtin, with their names.
Builtins ==
    {[method |-> "instance_init", name |-> "<global instance initializer>"],
     [method |-> "null_init", name |-> ""]}

\* The routines given to Method::from_builtin_and_params.
NativeRoutines == {[method |-> "native_fn", name |-> "native"]}

\* The NativeMethod of Method::from_builtin_and_params
from_builtin_and_params(fn, name, signature, return_type, is_variadic) ==
    [tag |-> "Native",
     method |-> fn,
     name |-> name,
     signature |-> signature,
     resolved_signature |-> None,
     return_type |-> return_type,
     is_variadic |-> is_variadic]

\* from_builtin that declares the routine as taking no arguments: an empty
\* signature that is not variadic.
from_builtin_fixed_arity(fn, name) ==
    [tag |-> "Native",
     method |-> fn,
     name |-> name,
     signature |-> <<>>,
     resolved_signature |-> None,
     return_type |-> None,
     is_variadic |-> FALSE]

\* The NativeMethod of Method::from_builtin
from_builtin(fn, name) ==
    [tag |-> "Native",
     method |-> fn,
     name |-> name,
     signature |-> <<>>,
     resolved_signature |-> None,
     return_type |-> None,
     is_variadic |-> TRUE]

\* The class a type name denotes in the activation's application domain,
\* None when the domain defines no class of that name.
get_class(domain, name) ==
    IF name.multiname \in domain.names
    THEN Some(Class(name.multiname, domain.id)) ELSE None

\* avm2::verify::resolve_param_config in the activation's application
\* domain: one ResolvedParamConfig per ParamConfig, in order; a type name
\* without a class is an error.
RECURSIVE resolve_param_config(_, _)
resolve_param_config(domain, param_config) ==
    IF param_config = <<>> THEN Ok(<<>>)
    ELSE LET param == Head(param_config)
             named == is_some(param.param_type_name)
             class == IF named
                      THEN get_class(domain, unwrap(param.param_type_name))
                      ELSE None
         IN  IF named /\ ~is_some(class)
             THEN Err(AvmError("ClassNotFound", 1014))
             ELSE LET rest == resolve_param_config(domain, Tail(param_config))
                  IN  IF ~rest.ok THEN rest
                      ELSE Ok(<<[param_type |-> class,
                                 default_value |-> param.default_value]>>
                              \o rest.val)

\* resolve_signature that keeps the first list stored.
resolve_signature_first_wins(self, resolved) ==
    IF ~resolved.ok
    THEN [this |-> self, ret |-> Err(resolved.val), calls |-> 1]
    ELSE [this |-> IF is_some(self.resolved_signature) THEN self
                   ELSE [self EXCEPT !.resolved_signature = Some(resolved.val)],
          ret |-> Ok(<<>>), calls |-> 1]

\* resolve_signature that empties the cache before it resolves.
resolve_signature_clearing(self, resolved) ==
    IF ~resolved.ok
    THEN [this |-> [self EXCEPT !.resolved_signature = None],
          ret |-> Err(resolved.val), calls |-> 1]
    ELSE [this |-> [self EXCEPT !.resolved_signature = Some(resolved.val)],
          ret |-> Ok(<<>>), calls |-> 1]

\* resolve_signature that caches an empty list when resolution fails.
resolve_signature_defaulting(self, resolved) ==
    IF ~resolved.ok
    THEN [this |-> [self EXCEPT !.resolved_signature = Some(<<>>)],
          ret |-> Err(resolved.val), calls |-> 1]
    ELSE [this |-> [self EXCEPT !.resolved_signature = Some(resolved.val)],
          ret |-> Ok(<<>>), calls |-> 1]

\* NativeMethod::resolve_signature, given what
\* resolve_param_config(activation, &self.signature) returns.
resolve_signature(self, resolved) ==
    IF ~resolved.ok
    THEN [this |-> self, ret |-> Err(resolved.val), calls |-> 1]
    ELSE [this |-> [self EXCEPT !.resolved_signature = Some(resolved.val)],
          ret |-> Ok(<<>>), calls |-> 1]

---------------------------------------------------------------------------
(* The Method handle *)

\* Method::Bytecode(bm), as built by From<Gc<BytecodeMethod>>
MethodBytecode(gc) == [tag |-> "Bytecode", gc |-> gc]

\* Method::Native(nm)
MethodNative(gc) == [tag |-> "Native", gc |-> gc]

\* clone that duplicates the descriptor: a new allocation holding a copy of
\* it, and a Method that points to the copy.
clone_deep(arena, m) ==
    [arena |-> Append(arena, arena[m.gc]),
     m |-> [m EXCEPT !.gc = Len(arena) + 1]]

\* Method::clone / Copy (derive(Copy, Clone)): the tag and the Gc pointer
\* are copied, nothing is allocated.
clone(arena, m) == [arena |-> arena, m |-> m]

\* Method::into_bytecode
into_bytecode(m) == IF m.tag = "Native" THEN None ELSE Some(m.gc)

\* Method::return_type
return_type(arena, m) == arena[m.gc].return_type

\* Method::signature
signature(arena, m) ==
    IF m.tag = "Native" THEN arena[m.gc].signature
    ELSE bm_signature(arena[m.gc])

\* Method::is_variadic
is_variadic(arena, m) ==
    IF m.tag = "Native" THEN arena[m.gc].is_variadic
    ELSE bm_is_variadic(arena[m.gc])

\* needs_arguments_object that answers as is_variadic does.
needs_arguments_object_variadic(arena, m) ==
    IF m.tag = "Native" THEN arena[m.gc].is_variadic
    ELSE method(arena[m.gc]).flags \cap {NEED_ARGUMENTS, NEED_REST} # {}

\* Method::needs_arguments_object
needs_arguments_object(arena, m) ==
    IF m.tag = "Native" THEN FALSE
    ELSE NEED_ARGUMENTS \in method(arena[m.gc]).flags


---------------------------------------------------------------------------
(* The desktop ExternalInterface provider (desktop/src/backends/
   external_interface.rs).  A string is the sequence of its segments
   between dots: "top.location.href" is <<"top", "location", "href">>. *)

\* Largest number of arguments of a call_method request.
MaxArgs == 2

\* ExternalValue
ExternalValueString(s) == [tag |-> "String", v |-> s]

ExternalValueNumber(n) == [tag |-> "Number", v |-> <<ToString(n)>>]

ExternalValueBool(b) ==
    [tag |-> "Bool", v |-> IF b THEN <<"true">> ELSE <<"false">>]

ExternalValueUndefined == [tag |-> "Undefined", v |-> <<>>]

ExternalValueNull == [tag |-> "Null", v |-> <<>>]

ExternalValueObject == [tag |-> "Object", v |-> <<>>]

\* The URLs the provider can be configured with to pose as the page's.
Urls ==
    {[scheme |-> "https", host |-> <<"example", "com">>],
     [scheme |-> "file", host |-> <<>>]}

\* Url::to_string: the serialization scheme://host/ of the URL, cut at its
\* dots.
to_string(url) ==
    IF url.host = <<>> THEN <<url.scheme \o ":///">>
    ELSE <<url.scheme \o "://" \o url.host[1]>>
            \o SubSeq(url.host, 2, Len(url.host) - 1)
            \o <<url.host[Len(url.host)] \o "/">>

\* str::strip_suffix(".toString"): the string without that suffix, None
\* when it does not end with it.
strip_suffix_toString(name) ==
    IF Len(name) >= 2 /\ name[Len(name)] = "toString"
    THEN Some(SubSeq(name, 1, Len(name) - 1)) ELSE None

\* is_location_href that accepts location.href of any object.
is_location_href_of_any(code) ==
    Len(code) = 3 /\ code[2] = "location" /\ code[3] = "href"

\* is_location_href
is_location_href(code) ==
    code \in {<<"document", "location", "href">>,
              <<"window", "location", "href">>,
              <<"top", "location", "href">>}

\* The text console.log writes for one argument.
log_text(arg) ==
    CASE arg.tag \in {"String", "Number", "Bool"} -> arg.v
      [] arg.tag = "Undefined" -> <<"undefined">>
      [] arg.tag = "Null" -> <<"null">>
      [] OTHER -> <<"<unknown>">>

\* What tracing receives in a call: nothing, a warning or a line of
\* information, with the texts it is made of.
NoLog == [level |-> "none", text |-> <<>>]

Warn(text) == [level |-> "warn", text |-> text]

Info(text) == [level |-> "info", text |-> text]

\* DesktopExternalInterfaceProvider::call_method: the ExternalValue it
\* returns and what it logs.
call_method(self, name, args) ==
    LET stripped == strip_suffix_toString(name) IN
    IF /\ is_some(self.spoof_url)
       /\ is_some(stripped)
       /\ is_location_href(unwrap(stripped))
    THEN [ret |-> ExternalValueString(to_string(unwrap(self.spoof_url))),
          log |-> NoLog]
    ELSE IF name = <<"eval">>
    THEN IF /\ is_some(self.spoof_url)
            /\ Len(args) = 1
            /\ args[1].tag = "String"
            /\ is_location_href(args[1].v)
         THEN [ret |-> ExternalValueString(to_string(unwrap(self.spoof_url))),
               log |-> NoLog]
         ELSE [ret |-> ExternalValueUndefined,
               log |-> Warn([i \in DOMAIN args |-> args[i].tag])]
    ELSE IF name = <<"console", "log">>
    THEN [ret |-> ExternalValueUndefined,
          log |-> Info([i \in DOMAIN args |-> log_text(args[i])])]
    ELSE IF name = <<"window", "navigator", "userAgent", "toString">>
    THEN [ret |-> ExternalValueString(<<"mundo-gaturro-desktop">>),
          log |-> NoLog]
    ELSE [ret |-> ExternalValueUndefined, log |-> Warn(<<name>>)]

---------------------------------------------------------------------------
(* State machine *)

\* The record kept of an operation: its name, the handle or index it was
\* applied to, its other arguments (for verify and resolve_signature: the
\* descriptor, its cache before the call and what the external verifier /
\* resolver returned in the call), how it ended ("ok", "err" or "panic"),
\* the value or error it returned and the number of calls it made to the
\* external verifier / resolver.
Returned(op, target, arg, outcome, val, calls) ==
    [op |-> op, target |-> target, arg |-> arg, outcome |-> outcome,
     val |-> val, calls |-> calls]

OutcomeOf(result) == IF result.ok THEN "ok" ELSE "err"

Init ==
    /\ heap = <<>>
    /\ handles = <<>>
    /\ reported = <<>>
    /\ last = Returned("none", 0, <<>>, "ok", <<>>, 0)

\* The pointer Gc::new returns for the next descriptor.
NewGc == Len(heap) + 1

\* Gc::new(mc, descriptor), the pointer NewGc then held in the Method
\* `handle`.
Allocate(descriptor, handle) ==
    /\ heap' = Append(heap, descriptor)
    /\ reported' = Append(reported, None)
    /\ handles' = Append(handles, handle)

HasRoom == Len(heap) < MaxDescs /\ Len(handles) < MaxHandles

\* A call of BytecodeMethod::from_method_index that has been issued and
\* has not returned.
Pending(txunit, abc_method, is_function) ==
    Returned("from_method_index", abc_method,
             [txunit |-> txunit, is_function |-> is_function],
             "pending", <<>>, 0)

\* The pending call of BytecodeMethod::from_method_index returns its
\* result to the caller.
CallFromMethodIndex ==
    /\ last.op = "from_method_index"
    /\ last.outcome = "pending"
    /\ LET r == from_method_index(last.arg.txunit, last.target,
                                  last.arg.is_function)
       IN  last' = [last EXCEPT !.outcome = OutcomeOf(r), !.val = r.val]
    /\ UNCHANGED <<heap, handles, reported>>

\* A class-loading or function-literal step: from_method_index, then on
\* success the descriptor is moved to the arena and wrapped in a Method.
NewBytecodeMethod(txunit, abc_method, is_function) ==
    LET r == from_method_index(txunit, abc_method, is_function) IN
    /\ HasRoom
    /\ IF r.ok
       THEN /\ Allocate(r.val, MethodBytecode(NewGc))
            /\ last' = Returned("new_bytecode", abc_method, is_function,
                                "ok", Len(handles) + 1, 0)
       ELSE /\ last' = Returned("new_bytecode", abc_method, is_function,
                                "err", r.val, 0)
            /\ UNCHANGED <<heap, handles, reported>>

\* Method::from_builtin_and_params
NewBuiltinAndParams(builtin, sig, rt, variadic) ==
    /\ HasRoom
    /\ Allocate(from_builtin_and_params(builtin.method, builtin.name, sig,
                                        rt, variadic),
                MethodNative(NewGc))
    /\ last' = Returned("from_builtin_and_params", 0,
                        [signature |-> sig, return_type |-> rt,
                         is_variadic |-> variadic],
                        "ok", Len(handles) + 1, 0)

\* Method::from_builtin
NewBuiltin(builtin) ==
    /\ HasRoom
    /\ Allocate(from_builtin(builtin.method, builtin.name), MethodNative(NewGc))
    /\ last' = Returned("from_builtin", 0, <<>>, "ok", Len(handles) + 1, 0)

\* Copy of a Method (derive(Copy, Clone)): the tag and the Gc pointer.
CopyMethod(h) ==
    /\ h \in DOMAIN handles
    /\ Len(handles) < MaxHandles
    /\ LET r == clone(heap, handles[h]) IN
        /\ heap' = r.arena
        /\ handles' = Append(handles, r.m)
        /\ reported' = IF Len(r.arena) = Len(heap) THEN reported
                       ELSE Append(reported, reported[handles[h].gc])
    /\ last' = Returned("copy", h, <<>>, "ok", Len(handles) + 1, 0)

\* BytecodeMethod::verify on the descriptor of handle h; `verified` is what
\* the external verifier returns in this call.
Verify(h, verified) ==
    /\ h \in DOMAIN handles
    /\ is_some(into_bytecode(handles[h]))
    /\ LET gc == unwrap(into_bytecode(handles[h]))
           r == verify(heap[gc], verified)
       IN  /\ heap' = [heap EXCEPT ![gc] = r.this]
           /\ reported' = IF r.calls > 0 /\ verified.ok
                          THEN [reported EXCEPT ![gc] = Some(verified.val)]
                          ELSE reported
           /\ last' = Returned("verify", h,
                               [gc |-> gc, before |-> heap[gc].verified_info,
                                returned |-> verified],
                               OutcomeOf(r.ret), r.ret.val, r.calls)
    /\ UNCHANGED handles

\* BytecodeMethod::resolved_return_type on the descriptor of handle h.
ResolvedReturnType(h) ==
    /\ h \in DOMAIN handles
    /\ is_some(into_bytecode(handles[h]))
    /\ LET gc == unwrap(into_bytecode(handles[h]))
           r == resolved_return_type(heap[gc])
       IN  last' = Returned("resolved_return_type", h, gc,
                            IF r.panic THEN "panic" ELSE "ok", r.val, 0)
    /\ UNCHANGED <<heap, handles, reported>>

\* BytecodeMethod::is_unchecked on the descriptor of handle h.
IsUnchecked(h) ==
    /\ h \in DOMAIN handles
    /\ is_some(into_bytecode(handles[h]))
    /\ LET gc == unwrap(into_bytecode(handles[h])) IN
       last' = Returned("is_unchecked", h, gc, "ok", is_unchecked(heap[gc]), 0)
    /\ UNCHANGED <<heap, handles, reported>>

\* NativeMethod::resolve_signature on the descriptor of handle h, while the
\* class system defines the classes named in `domain`.
ResolveSignature(h, domain) ==
    /\ h \in DOMAIN handles
    /\ handles[h].tag = "Native"
    /\ LET gc == handles[h].gc
           resolved == resolve_param_config(domain, heap[gc].signature)
           r == resolve_signature(heap[gc], resolved)
       IN  /\ heap' = [heap EXCEPT ![gc] = r.this]
           /\ reported' = IF r.calls > 0 /\ resolved.ok
                          THEN [reported EXCEPT ![gc] = Some(resolved.val)]
                          ELSE reported
           /\ last' = Returned("resolve_signature", h,
                               [gc |-> gc,
                                before |-> heap[gc].resolved_signature,
                                returned |-> resolved],
                               OutcomeOf(r.ret), r.ret.val, r.calls)
    /\ UNCHANGED handles

\* Method::signature
Signature(h) ==
    /\ h \in DOMAIN handles
    /\ last' = Returned("signature", h, <<>>, "ok",
                        signature(heap, handles[h]), 0)
    /\ UNCHANGED <<heap, handles, reported>>

\* Method::return_type
ReturnType(h) ==
    /\ h \in DOMAIN handles
    /\ last' = Returned("return_type", h, <<>>, "ok",
                        return_type(heap, handles[h]), 0)
    /\ UNCHANGED <<heap, handles, reported>>

\* Method::is_variadic
IsVariadic(h) ==
    /\ h \in DOMAIN handles
    /\ last' = Returned("is_variadic", h, <<>>, "ok",
                        is_variadic(heap, handles[h]), 0)
    /\ UNCHANGED <<heap, handles, reported>>

\* Method::needs_arguments_object
NeedsArgumentsObject(h) ==
    /\ h \in DOMAIN handles
    /\ last' = Returned("needs_arguments_object", h, <<>>, "ok",
                        needs_arguments_object(heap, handles[h]), 0)
    /\ UNCHANGED <<heap, handles, reported>>

\* Signatures and return types native methods are declared with: every
\* signature of length up to MaxParams, and the two the descriptor life
\* cycle is checked on.
NativeSignatures == SeqsUpTo(NativeParamConfigs, MaxParams)

LifeSignatures ==
    {<<[param_type_name |-> Some([multiname |-> "int"]),
        default_value |-> None]>>,
     <<optional(None, Integer(0)),
       [param_type_name |-> Some([multiname |-> "String"]),
        default_value |-> None]>>}

NativeReturnTypes == {None, Some([multiname |-> "int"])}

\* The application domains a signature may be resolved in: the player's
\* and a movie's, each defining some of the classes.
Domains == [names : SUBSET {"int", "String"}, id : {"player", "movie"}]

Next ==
    \/ \E t \in LifeContainers :
            \E i \in 0..Len(t.methods), f \in BOOLEAN :
                NewBytecodeMethod(t, i, f)
    \/ \E b \in NativeRoutines, sig \in LifeSignatures,
          rt \in NativeReturnTypes, v \in BOOLEAN :
            NewBuiltinAndParams(b, sig, rt, v)
    \/ \E b \in Builtins : NewBuiltin(b)
    \/ \E h \in 1..MaxHandles : CopyMethod(h)
    \/ \E h \in 1..MaxHandles, v \in VerifyMethodResults : Verify(h, v)
    \/ \E h \in 1..MaxHandles : ResolvedReturnType(h)
    \/ \E h \in 1..MaxHandles : IsUnchecked(h)
    \/ \E h \in 1..MaxHandles, d \in Domains : ResolveSignature(h, d)
    \/ \E h \in 1..MaxHandles : Signature(h)
    \/ \E h \in 1..MaxHandles : ReturnType(h)
    \/ \E h \in 1..MaxHandles : IsVariadic(h)
    \/ \E h \in 1..MaxHandles : NeedsArgumentsObject(h)

Spec == Init /\ [][Next]_vars

\* Construction of bytecode methods as a function of the container, the
\* method index (up to one past the table) and is_function.
InitBuild ==
    /\ heap = <<>>
    /\ handles = <<>>
    /\ reported = <<>>
    /\ \E t \in BuildContainers :
          \E i \in 0..(Len(t.methods) + 1), f \in BOOLEAN :
              last = Pending(t, i, f)

NextBuild == CallFromMethodIndex

SpecBuild == InitBuild /\ [][NextBuild]_vars

\* One native method, from its construction by either helper on: every
\* signature, return type and variadic flag.
InitNative ==
    /\ \E b \in NativeRoutines, sig \in NativeSignatures,
          rt \in NativeReturnTypes, v \in BOOLEAN :
            \/ /\ heap = <<from_builtin_and_params(b.method, b.name, sig, rt, v)>>
               /\ last = Returned("from_builtin_and_params", 0,
                                  [signature |-> sig, return_type |-> rt,
                                   is_variadic |-> v],
                                  "ok", 1, 0)
            \/ /\ heap = <<from_builtin(b.method, b.name)>>
               /\ last = Returned("from_builtin", 0, <<>>, "ok", 1, 0)
    /\ handles = <<MethodNative(1)>>
    /\ reported = <<None>>

NextNative ==
    \/ \E d \in Domains : ResolveSignature(1, d)
    \/ Signature(1)
    \/ ReturnType(1)
    \/ IsVariadic(1)
    \/ NeedsArgumentsObject(1)

SpecNative == InitNative /\ [][NextNative]_vars


\* The names call_method is requested with.
RequestNames ==
    {<<"document", "location", "href", "toString">>,
     <<"window", "location", "href", "toString">>,
     <<"top", "location", "href", "toString">>,
     <<"self", "location", "href", "toString">>,
     <<"window", "location", "href">>,
     <<"window", "location", "href", "toString", "toString">>,
     <<"toString">>,
     <<"eval">>,
     <<"eval", "toString">>,
     <<"console", "log">>,
     <<"window", "navigator", "userAgent", "toString">>,
     <<"window", "navigator", "userAgent">>}

\* The values call_method is given as arguments.
RequestValues ==
    {ExternalValueString(<<"document", "location", "href">>),
     ExternalValueString(<<"window", "location", "href">>),
     ExternalValueString(<<"top", "location", "href">>),
     ExternalValueString(<<"self", "location", "href">>),
     ExternalValueString(<<"alert(1)">>),
     ExternalValueNumber(1),
     ExternalValueBool(TRUE),
     ExternalValueUndefined,
     ExternalValueNull,
     ExternalValueObject}

\* A call of call_method that has been issued and has not returned.
PendingCall(self, name, args) ==
    Returned("call_method", name, [self |-> self, args |-> args],
             "pending", <<>>, 0)

\* The pending call of call_method returns.
CallMethod ==
    /\ last.op = "call_method"
    /\ last.outcome = "pending"
    /\ last' = [last EXCEPT
                    !.outcome = "ok",
                    !.val = call_method(last.arg.self, last.target,
                                        last.arg.args)]
    /\ UNCHANGED <<heap, handles, reported>>

\* The provider, configured with a spoofed URL or without, and one request
\* to it: every name, every list of up to MaxArgs arguments.
InitExternal ==
    /\ heap = <<>>
    /\ handles = <<>>
    /\ reported = <<>>
    /\ \E spoof_url \in {None} \cup {Some(u) : u \in Urls},
          name \in RequestNames,
          args \in SeqsUpTo(RequestValues, MaxArgs) :
            last = PendingCall([spoof_url |-> spoof_url], name, args)

NextExternal == CallMethod

SpecExternal == InitExternal /\ [][NextExternal]_vars

---------------------------------------------------------------------------
(* Properties of BytecodeMethod construction (SpecBuild) *)

\* The call of from_method_index recorded in `last` has returned.
BuildReturned == last.op = "from_method_index" /\ last.outcome # "pending"

\* The method index of the call is below the length of the method table.
IndexInRange == last.target < Len(last.arg.txunit.methods)

\* The method entry the call's index designates.
DeclaredMethod == last.arg.txunit.methods[last.target + 1]

\* C1: a call of from_method_index whose index is not below the length of
\* the container's method table returns an error, the VerifyError 1027, and
\* no descriptor, whatever the container and is_function.
C1_OutOfRangeFails ==
    (BuildReturned /\ ~IndexInRange)
        => /\ last.outcome = "err"
           /\ last.val = AvmError("VerifyError", 1027)

\* C1 witness: a call with the index equal to the length of a table of two
\* methods has returned the error.
C1_Witness ==
    /\ BuildReturned
    /\ Len(last.arg.txunit.methods) = 2
    /\ last.target = 2
    /\ last.arg.is_function
    /\ last.outcome = "err"

\* Every type index and default-value constant of a method entry decodes.
Decodable(m) ==
    /\ pool_multiname_static_any(m.return_type).ok
    /\ \A i \in DOMAIN m.params :
        /\ pool_multiname_static_any(m.params[i].kind).ok
        /\ is_some(m.params[i].default_value)
            => abc_default_value(unwrap(m.params[i].default_value)).ok

\* C2 as stated: for every index within the method table the call does not
\* fail, and the signature is as long as the declared parameter list.
C2_InRangeNeverFails ==
    (BuildReturned /\ IndexInRange)
        => /\ last.outcome = "ok"
           /\ Len(last.val.signature) = Len(DeclaredMethod.params)

\* C2 amended: for every index within the method table the call fails
\* exactly when a type index or default-value constant of the entry does
\* not decode, and when it succeeds the signature is as long as the
\* declared parameter list.
C2_InRangeFailsOnlyOnDecoding ==
    (BuildReturned /\ IndexInRange)
        => /\ (last.outcome = "ok") = Decodable(DeclaredMethod)
           /\ last.outcome = "ok"
                => Len(last.val.signature) = Len(DeclaredMethod.params)

\* C2 witness: a descriptor built from the second entry of a table, an
\* entry that declares two parameters.
C2_Witness ==
    /\ BuildReturned
    /\ last.target = 1
    /\ last.outcome = "ok"
    /\ Len(DeclaredMethod.params) = 2
    /\ Len(last.val.signature) = 2

\* C3: a constructed descriptor is unchecked exactly when it is a
\* free-standing function and no ParamConfig of its signature has a type
\* name or a default value.
C3_UncheckedIff ==
    (BuildReturned /\ last.outcome = "ok")
        => is_unchecked(last.val)
            = (/\ last.arg.is_function
               /\ \A i \in DOMAIN last.val.signature :
                    /\ last.val.signature[i].param_type_name = None
                    /\ last.val.signature[i].default_value = None)

\* C3 witness: an unchecked free-standing function of two parameters.
C3_Witness ==
    /\ BuildReturned
    /\ last.outcome = "ok"
    /\ last.arg.is_function
    /\ Len(last.val.signature) = 2
    /\ is_unchecked(last.val)


---------------------------------------------------------------------------
(* Properties of deferred verification (Spec) *)

\* C4: once the verifier has reported a VerifiedMethodInfo for a descriptor
\* in a successful verify, resolved_return_type() yields the return type of
\* the latest such report, in every later state and on every read, and a
\* read leaves the arena as it was.
C4_ReadsReportedReturnType ==
    [][/\ \A gc \in DOMAIN heap' :
            (heap'[gc].tag = "Bytecode" /\ is_some(reported'[gc]))
                => resolved_return_type(heap'[gc])
                    = [panic |-> FALSE,
                       val |-> unwrap(reported'[gc]).return_type]
       /\ last'.op = "resolved_return_type"
            => /\ heap' = heap
               /\ is_some(reported[last'.arg])
                    => /\ last'.outcome = "ok"
                       /\ last'.val = unwrap(reported[last'.arg]).return_type
      ]_vars

\* C4 witness: a read has returned the class the verifier reported.
C4_Witness ==
    /\ last.op = "resolved_return_type"
    /\ last.outcome = "ok"
    /\ is_some(reported[last.arg])
    /\ last.val = Some(Class("int", "player"))

\* C5 as stated: after a verify that failed the cache is None.
C5_FailedVerifyLeavesNone ==
    (last.op = "verify" /\ last.outcome = "err")
        => heap[last.arg.gc].verified_info = None

\* C5 amended: a verify whose verifier fails returns the verifier's error
\* and leaves the cache as it was before the call (None if no verify has
\* succeeded, the cached info otherwise); every verify, the one that
\* follows a failed verify included, runs the verifier and succeeds exactly
\* when that run does.
C5_FailedVerifyKeepsCache ==
    last.op = "verify"
        => /\ last.calls = 1
           /\ (last.outcome = "ok") = last.arg.returned.ok
           /\ ~last.arg.returned.ok
                => /\ last.val = last.arg.returned.val
                   /\ heap[last.arg.gc].verified_info = last.arg.before

\* C5 witness: a verify has failed on a descriptor verified before.
C5_Witness ==
    /\ last.op = "verify"
    /\ last.outcome = "err"
    /\ is_some(last.arg.before)
    /\ heap[last.arg.gc].verified_info = last.arg.before

\* C6: verified_info is None in a new descriptor, becomes Some only in a
\* verify that succeeds on that descriptor, and a cache that is Some is
\* Some after every step.
C6_OneWayCache ==
    [][\A gc \in DOMAIN heap' :
          heap'[gc].tag = "Bytecode"
            => IF gc \notin DOMAIN heap
               THEN heap'[gc].verified_info = None
               ELSE /\ is_some(heap[gc].verified_info)
                        => is_some(heap'[gc].verified_info)
                    /\ (~is_some(heap[gc].verified_info)
                            /\ is_some(heap'[gc].verified_info))
                        => /\ last'.op = "verify"
                           /\ last'.outcome = "ok"
                           /\ last'.arg.gc = gc
      ]_vars

\* C6 witness: the cache is Some after a verify that failed, called through
\* a copy of the handle on a descriptor verified before.
C6_Witness ==
    /\ last.op = "verify"
    /\ last.outcome = "err"
    /\ last.target = 2
    /\ is_some(heap[last.arg.gc].verified_info)

\* C7: every verify runs the external verifier once, whether or not the
\* descriptor is verified already, and when the verifier succeeds the cache
\* holds the info of that run, whatever it held before.
C7_VerifyAlwaysRuns ==
    last.op = "verify"
        => /\ last.calls = 1
           /\ last.arg.returned.ok
                => /\ last.outcome = "ok"
                   /\ heap[last.arg.gc].verified_info
                        = Some(last.arg.returned.val)

\* C7 witness: a verify on a verified descriptor has replaced the cached
\* info by a different one.
C7_Witness ==
    /\ last.op = "verify"
    /\ last.outcome = "ok"
    /\ last.calls = 1
    /\ is_some(last.arg.before)
    /\ heap[last.arg.gc].verified_info # last.arg.before

---------------------------------------------------------------------------
(* Properties of native signature resolution (SpecNative) *)

\* C8: a resolve_signature that succeeds stores Some(list), whatever was
\* cached, where the list is the one the resolver returned: as long as the
\* signature, entry i with the default value of parameter i and the class
\* its type name denotes (None without a type name).
C8_ResolvedSignature ==
    (last.op = "resolve_signature" /\ last.outcome = "ok")
        => LET sig == heap[1].signature
               rs == heap[1].resolved_signature
           IN  /\ last.arg.returned.ok
               /\ rs = Some(last.arg.returned.val)
               /\ Len(unwrap(rs)) = Len(sig)
               /\ \A i \in DOMAIN sig :
                    /\ unwrap(rs)[i].default_value = sig[i].default_value
                    /\ is_some(unwrap(rs)[i].param_type)
                        = is_some(sig[i].param_type_name)
                    /\ is_some(sig[i].param_type_name)
                        => unwrap(unwrap(rs)[i].param_type).class
                            = unwrap(sig[i].param_type_name).multiname

\* C8 witness: the signature [(int, no default), (no type, default 0)] has
\* been resolved again, in another domain, and the list was replaced.
C8_Witness ==
    /\ last.op = "resolve_signature"
    /\ last.outcome = "ok"
    /\ heap[1].signature
        = <<[param_type_name |-> Some([multiname |-> "int"]),
             default_value |-> None],
            optional(None, Integer(0))>>
    /\ is_some(last.arg.before)
    /\ heap[1].resolved_signature # last.arg.before
    /\ Len(unwrap(heap[1].resolved_signature)) = 2

\* C9: a resolve_signature whose resolution fails returns that error and
\* leaves the cache as it was before the call.
C9_FailedResolveKeepsCache ==
    (last.op = "resolve_signature" /\ ~last.arg.returned.ok)
        => /\ last.outcome = "err"
           /\ last.val = last.arg.returned.val
           /\ heap[last.arg.gc].resolved_signature = last.arg.before

\* C9 witness: resolution has failed at the second parameter of a
\* signature that was resolved before, and the earlier list is cached.
C9_Witness ==
    /\ last.op = "resolve_signature"
    /\ last.outcome = "err"
    /\ Len(heap[1].signature) = 2
    /\ ~is_some(heap[1].signature[1].param_type_name)
    /\ is_some(last.arg.before)
    /\ heap[1].resolved_signature = last.arg.before

---------------------------------------------------------------------------
(* Properties of the Method queries (Spec) *)

\* The flags the container declares for the method of a bytecode
\* descriptor.
DeclaredFlags(bm) == bm.txunit.methods[bm.abc_method + 1].flags

\* C10: is_variadic() of a Bytecode method is true exactly when the
\* container's flags of the method hold NEED_REST or NEED_ARGUMENTS; of a
\* Native method it is the flag given at construction (true for
\* from_builtin).
C10_IsVariadic ==
    /\ last.op = "is_variadic"
        => LET m == handles[last.target] IN
           IF m.tag = "Bytecode"
           THEN last.val = (\/ NEED_REST \in DeclaredFlags(heap[m.gc])
                            \/ NEED_ARGUMENTS \in DeclaredFlags(heap[m.gc]))
           ELSE last.val = heap[m.gc].is_variadic
    /\ last.op = "from_builtin_and_params"
        => is_variadic(heap, handles[last.val]) = last.arg.is_variadic
    /\ last.op = "from_builtin"
        => is_variadic(heap, handles[last.val])

\* C10 witness: is_variadic() has answered true for a bytecode method that
\* declares NEED_REST and not NEED_ARGUMENTS.
C10_Witness ==
    /\ last.op = "is_variadic"
    /\ handles[last.target].tag = "Bytecode"
    /\ DeclaredFlags(heap[handles[last.target].gc]) = {NEED_REST}
    /\ last.val

\* C11: needs_arguments_object() is false for every Native method, whatever
\* it was constructed with, and for a Bytecode method it is true exactly
\* when the container's flags of the method hold NEED_ARGUMENTS; this is so
\* for every handle in every state and for every answer given.
C11_NeedsArgumentsObject ==
    /\ \A h \in DOMAIN handles :
        needs_arguments_object(heap, handles[h])
            = (/\ handles[h].tag = "Bytecode"
               /\ NEED_ARGUMENTS \in DeclaredFlags(heap[handles[h].gc]))
    /\ last.op = "needs_arguments_object"
        => last.val
            = (/\ handles[last.target].tag = "Bytecode"
               /\ NEED_ARGUMENTS
                    \in DeclaredFlags(heap[handles[last.target].gc]))

\* C11 witness: needs_arguments_object() has answered false for a bytecode
\* method that declares NEED_REST and not NEED_ARGUMENTS.
C11_Witness ==
    /\ last.op = "needs_arguments_object"
    /\ handles[last.target].tag = "Bytecode"
    /\ DeclaredFlags(heap[handles[last.target].gc]) = {NEED_REST}
    /\ ~last.val

\* The fields of a descriptor that are set at construction: all but its
\* lazy cache.
ConstructionFields(d) ==
    IF d.tag = "Bytecode" THEN [d EXCEPT !.verified_info = None]
    ELSE [d EXCEPT !.resolved_signature = None]

\* What the five queries answer through a Method.
Answers(arena, m) ==
    [signature |-> signature(arena, m),
     return_type |-> return_type(arena, m),
     is_variadic |-> is_variadic(arena, m),
     needs_arguments_object |-> needs_arguments_object(arena, m),
     is_unchecked |-> IF m.tag = "Bytecode" THEN is_unchecked(arena[m.gc])
                      ELSE FALSE]

Queries ==
    {"signature", "return_type", "is_variadic", "needs_arguments_object",
     "is_unchecked"}

\* C12: every step, a verify or resolve_signature that succeeds or fails
\* included, leaves every handle as it was and, where it changes the arena
\* at all, leaves the construction-time fields of every descriptor and
\* the answers of the five queries through every handle as they were; a
\* query answers whatever the cache holds (None included), and changes
\* neither the arena nor the handles.
C12_QueriesPureAndFramed ==
    [][/\ \A h \in DOMAIN handles : handles'[h] = handles[h]
       /\ heap' # heap
            => /\ \A gc \in DOMAIN heap :
                    ConstructionFields(heap'[gc]) = ConstructionFields(heap[gc])
               /\ \A h \in DOMAIN handles :
                    Answers(heap', handles'[h]) = Answers(heap, handles[h])
       /\ last'.op \in Queries
            => /\ heap' = heap
               /\ handles' = handles
               /\ last'.outcome = "ok"
      ]_vars

\* C12 witness: signature() has answered the one declared parameter of a
\* bytecode method whose cache a verify has filled.
C12_Witness ==
    /\ last.op = "signature"
    /\ handles[last.target].tag = "Bytecode"
    /\ is_some(heap[handles[last.target].gc].verified_info)
    /\ Len(last.val) = 1
    /\ last.val = heap[handles[last.target].gc].signature

\* The lazy cache observed through a Method.
Cache(arena, m) ==
    IF m.tag = "Bytecode" THEN arena[m.gc].verified_info
    ELSE arena[m.gc].resolved_signature

\* C13: a Method holds a reference to its descriptor.  No step changes a
\* handle; a copy allocates nothing and refers to the descriptor of its
\* original; and after a verify or resolve_signature through one handle
\* the cache observed through every handle of the same descriptor is the
\* cache observed through that one: the result of the call if it
\* succeeded, the cache of before the call if it failed.
C13_SharedDescriptor ==
    [][/\ \A h \in DOMAIN handles : handles'[h] = handles[h]
       /\ last'.op = "copy"
            => /\ heap' = heap
               /\ handles'[last'.val] = handles[last'.target]
       /\ last'.op \in {"verify", "resolve_signature"}
            => \A h \in DOMAIN handles' :
                  handles'[h].gc = handles'[last'.target].gc
                    => /\ Cache(heap', handles'[h])
                            = Cache(heap', handles'[last'.target])
                       /\ Cache(heap', handles'[h])
                            = IF last'.outcome = "ok"
                              THEN Some(last'.arg.returned.val)
                              ELSE last'.arg.before
      ]_vars

\* C13 witness: a verify through a copy (handle 2) has succeeded, and the
\* cache observed through the original (handle 1) holds its result.
C13_Witness ==
    /\ last.op = "verify"
    /\ last.outcome = "ok"
    /\ last.target = 2
    /\ handles[1] = handles[2]
    /\ Cache(heap, handles[1]) = Some(last.arg.returned.val)

\* C14: the Method from_builtin returns is Native with an empty signature,
\* no return type and is_variadic true; the Method from_builtin_and_params
\* returns is Native with the signature, return type and is_variadic it
\* was given; the resolved_signature of both is None.
C14_BuiltinConstruction ==
    /\ last.op = "from_builtin"
        => LET m == handles[last.val] IN
           /\ m.tag = "Native"
           /\ signature(heap, m) = <<>>
           /\ return_type(heap, m) = None
           /\ is_variadic(heap, m)
           /\ heap[m.gc].resolved_signature = None
    /\ last.op = "from_builtin_and_params"
        => LET m == handles[last.val] IN
           /\ m.tag = "Native"
           /\ signature(heap, m) = last.arg.signature
           /\ return_type(heap, m) = last.arg.return_type
           /\ is_variadic(heap, m) = last.arg.is_variadic
           /\ heap[m.gc].resolved_signature = None

\* C14 witness: from_builtin_and_params has returned a method of two
\* parameters with a return type that is not variadic.
C14_Witness ==
    /\ last.op = "from_builtin_and_params"
    /\ Len(signature(heap, handles[last.val])) = 2
    /\ is_some(return_type(heap, handles[last.val]))
    /\ ~is_variadic(heap, handles[last.val])

\* C15: a call of resolved_return_type() panics exactly when the
\* verified_info of the descriptor is None, which is exactly when no verify
\* of the descriptor has succeeded (it is new, or every verify of it has
\* failed); a call that does not panic returns a value, and no call returns
\* an error.
C15_PanicsIffUnverified ==
    last.op = "resolved_return_type"
        => /\ last.outcome \in {"ok", "panic"}
           /\ (last.outcome = "panic")
                = (heap[last.arg].verified_info = None)
           /\ (last.outcome = "panic") = ~is_some(reported[last.arg])

\* C15 witness: resolved_return_type() has panicked on a bytecode
\* descriptor on which no verify has succeeded.
C15_Witness ==
    /\ last.op = "resolved_return_type"
    /\ last.outcome = "panic"
    /\ heap[last.arg].verified_info = None
    /\ ~is_some(reported[last.arg])

---------------------------------------------------------------------------
(* Properties of the constructed descriptor (SpecBuild) *)

\* C16: in a descriptor from_method_index has returned, the signature has
\* one entry per declared parameter, in declaration order: entry i has the
\* name the type index of parameter i resolves to, and Some(the decoded
\* constant) as default value when parameter i declares one, None when it
\* does not; return_type is the name the declared return type index
\* resolves to; verified_info is None.
C16_ConstructedFields ==
    (BuildReturned /\ last.outcome = "ok")
        => LET params == DeclaredMethod.params
               bm == last.val
           IN  /\ DOMAIN bm.signature = DOMAIN params
               /\ \A i \in DOMAIN params :
                    /\ bm.signature[i].param_type_name
                        = pool_multiname_static_any(params[i].kind).val
                    /\ bm.signature[i].default_value
                        = IF is_some(params[i].default_value)
                          THEN Some(abc_default_value(
                                        unwrap(params[i].default_value)).val)
                          ELSE None
               /\ bm.return_type
                    = pool_multiname_static_any(DeclaredMethod.return_type).val
               /\ bm.verified_info = None

\* C16 witness: a descriptor built from an entry that declares a typed
\* parameter without default and then an untyped parameter with a default,
\* and a return type.
C16_Witness ==
    /\ BuildReturned
    /\ last.outcome = "ok"
    /\ Len(last.val.signature) = 2
    /\ is_some(last.val.signature[1].param_type_name)
    /\ last.val.signature[1].default_value = None
    /\ last.val.signature[2].param_type_name = None
    /\ last.val.signature[2].default_value = Some(Integer(7))
    /\ is_some(last.val.return_type)

\* The error decoding one declared parameter ends in, if any: that of its
\* type index, else that of its default-value constant.
ParamFailure(p) ==
    IF ~pool_multiname_static_any(p.kind).ok
    THEN Some(pool_multiname_static_any(p.kind).val)
    ELSE IF /\ is_some(p.default_value)
            /\ ~abc_default_value(unwrap(p.default_value)).ok
         THEN Some(abc_default_value(unwrap(p.default_value)).val)
         ELSE None

\* The first decoding error of a method entry in declaration order, if
\* any: that of its first parameter that has one, else that of its return
\* type index.
FirstFailure(m) ==
    LET failing == {i \in DOMAIN m.params : is_some(ParamFailure(m.params[i]))}
    IN  IF failing # {}
        THEN ParamFailure(
                 m.params[CHOOSE i \in failing : \A j \in failing : i <= j])
        ELSE IF ~pool_multiname_static_any(m.return_type).ok
             THEN Some(pool_multiname_static_any(m.return_type).val)
             ELSE None

\* C17: a call of from_method_index with an index within the table, for
\* an entry of which a type index, a default-value constant or the return
\* type index does not decode, returns an error and no descriptor, and
\* the error is the first decoding error in declaration order (parameters
\* before the return type), as the decoder returned it.
C17_FirstFailurePropagates ==
    (BuildReturned /\ IndexInRange /\ is_some(FirstFailure(DeclaredMethod)))
        => /\ last.outcome = "err"
           /\ last.val = unwrap(FirstFailure(DeclaredMethod))

\* C17 witness: for an entry whose second parameter has a default-value
\* constant that does not decode and whose return type index does not
\* decode either, the call has returned the error of the constant.
C17_Witness ==
    /\ BuildReturned
    /\ IndexInRange
    /\ Len(DeclaredMethod.params) = 2
    /\ ParamFailure(DeclaredMethod.params[1]) = None
    /\ ParamFailure(DeclaredMethod.params[2])
        = Some(AvmError("CpoolIntOutOfRange", 2))
    /\ ~pool_multiname_static_any(DeclaredMethod.return_type).ok
    /\ last.outcome = "err"
    /\ last.val = AvmError("CpoolIntOutOfRange", 2)

---------------------------------------------------------------------------
(* Properties relating the queries (Spec) *)

\* C18: through every Method of every state, native or bytecode,
\* needs_arguments_object() implies is_variadic().
C18_ArgumentsObjectImpliesVariadic ==
    \A h \in DOMAIN handles :
        needs_arguments_object(heap, handles[h])
            => is_variadic(heap, handles[h])

\* C18 witness: is_variadic() has answered true for a bytecode method that
\* declares NEED_ARGUMENTS and not NEED_REST, whose
\* needs_arguments_object() is true.
C18_Witness ==
    /\ last.op = "is_variadic"
    /\ last.val
    /\ handles[last.target].tag = "Bytecode"
    /\ NEED_REST \notin DeclaredFlags(heap[handles[last.target].gc])
    /\ needs_arguments_object(heap, handles[last.target])

---------------------------------------------------------------------------
(* Properties of the native cache over time (SpecNative) *)

\* The native descriptor a helper has just built holds no resolved
\* signature.
NoneAfterConstruction ==
    last.op \in {"from_builtin", "from_builtin_and_params"}
        => heap[handles[last.val].gc].resolved_signature = None

\* A step changes the resolved_signature of a native descriptor only if it
\* is a resolve_signature on that descriptor that succeeds, and never from
\* Some to None; a descriptor it allocates holds None.
NativeCacheStep ==
    \A gc \in DOMAIN heap' :
        heap'[gc].tag = "Native"
          => IF gc \notin DOMAIN heap
             THEN heap'[gc].resolved_signature = None
             ELSE /\ is_some(heap[gc].resolved_signature)
                      => is_some(heap'[gc].resolved_signature)
                  /\ heap'[gc].resolved_signature
                          # heap[gc].resolved_signature
                      => /\ last'.op = "resolve_signature"
                         /\ last'.outcome = "ok"
                         /\ last'.arg.gc = gc

\* C19: resolved_signature is None in a native descriptor that either
\* helper has just built; a step changes it only if the step is a
\* resolve_signature on that descriptor that succeeds; and a cache that is
\* Some is Some after every step, a failing resolve_signature included.
C19_NativeOneWayCache == []NoneAfterConstruction /\ [][NativeCacheStep]_vars

\* C19 witness: a resolve_signature has failed on a descriptor of two
\* parameters whose signature was resolved before, and the cache is Some.
C19_Witness ==
    /\ last.op = "resolve_signature"
    /\ last.outcome = "err"
    /\ Len(heap[last.arg.gc].signature) = 2
    /\ is_some(last.arg.before)
    /\ is_some(heap[last.arg.gc].resolved_signature)
    /\ is_some(heap[last.arg.gc].signature[2].param_type_name)

---------------------------------------------------------------------------
(* Properties of the ExternalInterface provider (SpecExternal) *)

\* The call of call_method recorded in `last` has returned.
CallReturned == last.op = "call_method" /\ last.outcome = "ok"

\* The request of the call asks for the location href: its name is
\* document/window/top.location.href.toString, or it is eval with one
\* argument, a string that is one of the three expressions.
LocationHrefQuery ==
    \/ \E object \in {"document", "window", "top"} :
          last.target = <<object, "location", "href", "toString">>
    \/ /\ last.target = <<"eval">>
       /\ \E object \in {"document", "window", "top"} :
            last.arg.args
                = <<ExternalValueString(<<object, "location", "href">>)>>

\* C20: call_method returns the string of a spoofed URL only when
\* spoof_url is set, the string is that URL's and the request asks for the
\* location href; without spoof_url every name but
\* window.navigator.userAgent.toString returns Undefined; and eval returns
\* Undefined or the string of the spoofed URL.
C20_SpoofedUrlOnlyForLocationHref ==
    CallReturned
        => LET spoof_url == last.arg.self.spoof_url
               ret == last.val.ret
           IN  /\ (\E u \in Urls : ret = ExternalValueString(to_string(u)))
                    => /\ is_some(spoof_url)
                       /\ ret = ExternalValueString(
                                    to_string(unwrap(spoof_url)))
                       /\ LocationHrefQuery
               /\ (/\ spoof_url = None
                   /\ last.target
                        # <<"window", "navigator", "userAgent", "toString">>)
                    => ret = ExternalValueUndefined
               /\ last.target = <<"eval">>
                    => \/ ret = ExternalValueUndefined
                       \/ /\ is_some(spoof_url)
                          /\ ret = ExternalValueString(
                                       to_string(unwrap(spoof_url)))

\* C20 witness: with spoof_url set to https://example.com/, eval of the
\* one argument "top.location.href" has returned that URL's string.
C20_Witness ==
    /\ CallReturned
    /\ last.target = <<"eval">>
    /\ last.arg.args = <<ExternalValueString(<<"top", "location", "href">>)>>
    /\ last.arg.self.spoof_url
        = Some([scheme |-> "https", host |-> <<"example", "com">>])
    /\ last.val.ret = ExternalValueString(<<"https://example", "com/">>)

====
